---- MODULE Spec2Model ----
(***************************************************************************)
(* Humine (src/humine.py): the memoized, priority-guided Monte-Carlo move  *)
(* search of ChessLearner.  The model covers the statistics store          *)
(* (record_move_result, get_move_score, should_retry_move,                 *)
(* get_best_move_from_memory, get_untried_moves), the persistent file, the *)
(* position analysis that feeds the search, and find_winning_move.         *)
(*                                                                         *)
(* The rules engine (python-chess) and the opponent oracle (Stockfish) are *)
(* external: a position is a descriptor of what the rules engine answers   *)
(* about it, and one simulated game is a nondeterministic draw of          *)
(* simulate_tactical_game's return value.                                  *)
(*                                                                         *)
(* Scores are Python floats in the source; here they are exact rationals,  *)
(* so two scores compare as their real values do.                          *)
(***************************************************************************)
EXTENDS Integers, Sequences, FiniteSets, TLC

(***************************************************************************)
(* Bounds of the model.                                                    *)
(***************************************************************************)
\* most captures the learner makes in one simulated game
MaxCaptures == 15
\* largest material swing (centipawns) of one simulated game: a full army
\* and eight promotions
MaxSwing == 10400
\* most outcomes recorded in one behaviour, per scope (see Scopes)
MaxRecordingsWide == 2
MaxRecordingsDeep == 5
MaxRecordingsStore == 2
MaxRecordingsSwing == 5
\* largest attempt budget of a search (--strength, default 50)
MaxStrength == 5
\* most writes of memory_file that fail in one behaviour
MaxSaveFaults == 1

\* outcomes recorded, and largest budget, on a position of six legal moves
MaxRecordingsPriority == 6

(***************************************************************************)
(* Program constants.                                                      *)
(***************************************************************************)
\* self.max_depth, the depth cap of a simulated game (default 200)
max_depth == 200

(***************************************************************************)
(* Python values.                                                          *)
(***************************************************************************)
\* float('inf'), the value of min_moves_to_win / min_moves_to_draw before
\* the first win / draw
Infinity == -1

\* min(a, b) of Python, with float('inf') as either argument
\* a faulty minimum: the later ply count replaces the earlier one
PyMinKeepsLast(a, b) == b

PyMin(a, b) ==
    IF a = Infinity THEN b
    ELSE IF b = Infinity THEN a
    ELSE IF a <= b THEN a ELSE b

\* None
None == [tag |-> "None"]

Some(v) == [tag |-> "Some", val |-> v]

(***************************************************************************)
(* Exact rationals: whole + num/den with 0 <= num < den, in lowest terms.  *)
(***************************************************************************)
RECURSIVE GCD(_, _)
GCD(a, b) == IF b = 0 THEN a ELSE GCD(b, a % b)

Rat(n, d) ==
    LET whole == n \div d
        r     == n % d
        g     == GCD(d, r)
    IN  [whole |-> whole, num |-> r \div g, den |-> d \div g]

RatInt(i) == [whole |-> i, num |-> 0, den |-> 1]

RatAdd(a, b) ==
    LET s == Rat(a.num * b.den + b.num * a.den, a.den * b.den)
    IN  [whole |-> a.whole + b.whole + s.whole, num |-> s.num, den |-> s.den]

\* k / r for an integer k >= 0 and a rational r > 0
IntDivRat(k, r) == Rat(k * r.den, r.whole * r.den + r.num)

RatLess(a, b) ==
    \/ a.whole < b.whole
    \/ a.whole = b.whole /\ a.num * b.den < b.num * a.den

RatLeq(a, b) == ~RatLess(b, a)

(***************************************************************************)
(* The statistics store: position key -> move uci -> MoveRecord.  A bucket *)
(* is a Python dict, which iterates in insertion order: it is the sequence *)
(* of its items <<uci, move_data>> in the order the moves were first       *)
(* recorded.                                                               *)
(***************************************************************************)
NewRecord(move_san) ==
    [san |-> move_san,
     results |-> <<>>,
     wins |-> 0,
     draws |-> 0,
     losses |-> 0,
     min_moves_to_win |-> Infinity,
     min_moves_to_draw |-> Infinity,
     total_captures |-> 0,
     total_material_gained |-> 0]

\* index of move_uci in a bucket, 0 when it has no record
RECURSIVE IndexOf(_, _, _)
IndexOf(bucket, move_uci, i) ==
    IF i > Len(bucket) THEN 0
    ELSE IF bucket[i].uci = move_uci THEN i
    ELSE IndexOf(bucket, move_uci, i + 1)

HasMove(bucket, move_uci) == IndexOf(bucket, move_uci, 1) # 0

MoveData(bucket, move_uci) == bucket[IndexOf(bucket, move_uci, 1)].data

Bucket(mem, key) == IF key \in DOMAIN mem THEN mem[key] ELSE <<>>

\* a faulty update: a loss is appended to results and not counted
UpdateRecordLossUncounted(md, result, move_count, tactical_info, timestamp) ==
    LET entry == [result |-> result, move_count |-> move_count,
                  timestamp |-> timestamp, tactical_info |-> tactical_info]
        md2 == [md EXCEPT !.results = Append(@, entry)]
    IN  IF result = "WIN"
        THEN [md2 EXCEPT !.wins = @ + 1,
                         !.min_moves_to_win = PyMin(@, move_count)]
        ELSE IF result = "DRAW"
        THEN [md2 EXCEPT !.draws = @ + 1,
                         !.min_moves_to_draw = PyMin(@, move_count)]
        ELSE md2

\* the statistics update of record_move_result on one MoveRecord
UpdateRecord(md, result, move_count, tactical_info, timestamp) ==
    LET entry == [result |-> result, move_count |-> move_count,
                  timestamp |-> timestamp, tactical_info |-> tactical_info]
        md1 == IF tactical_info # None
               THEN [md EXCEPT
                       !.total_captures = @ + tactical_info.val.captures_by_us,
                       !.total_material_gained =
                           @ + tactical_info.val.material_balance_change]
               ELSE md
        md2 == [md1 EXCEPT !.results = Append(@, entry)]
    IN  IF result = "WIN"
        THEN [md2 EXCEPT !.wins = @ + 1,
                         !.min_moves_to_win = PyMin(@, move_count)]
        ELSE IF result = "DRAW"
        THEN [md2 EXCEPT !.draws = @ + 1,
                         !.min_moves_to_draw = PyMin(@, move_count)]
        ELSE [md2 EXCEPT !.losses = @ + 1]

\* self.memory after record_move_result under position_key
\* a faulty recording: an outcome already held by the record, with the same
\* ply count, is not recorded again
RecordInMemoryDedup(mem, key, move_uci, move_san, result, move_count, tactical_info, timestamp) ==
    LET bucket0 == Bucket(mem, key)
        bucket1 == IF HasMove(bucket0, move_uci) THEN bucket0
                   ELSE Append(bucket0,
                               [uci |-> move_uci, data |-> NewRecord(move_san)])
        i       == IndexOf(bucket1, move_uci, 1)
        held    == \E j \in 1..Len(bucket1[i].data.results) :
                       /\ bucket1[i].data.results[j].result = result
                       /\ bucket1[i].data.results[j].move_count = move_count
        bucket2 == IF held THEN bucket1
                   ELSE [bucket1 EXCEPT ![i].data =
                            UpdateRecord(@, result, move_count, tactical_info,
                                         timestamp)]
    IN  [k \in (DOMAIN mem) \cup {key} |-> IF k = key THEN bucket2 ELSE mem[k]]

\* a faulty recording: the bucket of the key is started anew for a move that
\* has no record yet, and the records of the other moves are dropped
RecordInMemoryFreshBucket(mem, key, move_uci, move_san, result, move_count, tactical_info, timestamp) ==
    LET bucket0 == Bucket(mem, key)
        bucket1 == IF HasMove(bucket0, move_uci) THEN bucket0
                   ELSE << [uci |-> move_uci, data |-> NewRecord(move_san)] >>
        i       == IndexOf(bucket1, move_uci, 1)
        bucket2 == [bucket1 EXCEPT ![i].data =
                       UpdateRecord(@, result, move_count, tactical_info,
                                    timestamp)]
    IN  [k \in (DOMAIN mem) \cup {key} |-> IF k = key THEN bucket2 ELSE mem[k]]

RecordInMemory(mem, key, move_uci, move_san, result, move_count, tactical_info, timestamp) ==
    LET bucket0 == Bucket(mem, key)
        bucket1 == IF HasMove(bucket0, move_uci) THEN bucket0
                   ELSE Append(bucket0,
                               [uci |-> move_uci, data |-> NewRecord(move_san)])
        i       == IndexOf(bucket1, move_uci, 1)
        bucket2 == [bucket1 EXCEPT ![i].data =
                       UpdateRecord(@, result, move_count, tactical_info,
                                    timestamp)]
    IN  [k \in (DOMAIN mem) \cup {key} |-> IF k = key THEN bucket2 ELSE mem[k]]

(***************************************************************************)
(* get_move_score                                                          *)
(***************************************************************************)
\* a faulty score: the win term is 500 shared among the wins, so that it
\* shrinks as wins are added
get_move_score_shared_win_term(md) ==
    LET wins   == md.wins
        draws  == md.draws
        losses == md.losses
        total  == wins + draws + losses
        speed(min_moves) ==
            IF min_moves # Infinity THEN Rat(1000, min_moves) ELSE RatInt(0)
        base_score ==
            IF wins > 0
            THEN RatAdd(RatInt(10000),
                        RatAdd(speed(md.min_moves_to_win),
                               Rat(500, wins)))
            ELSE IF draws > 0
            THEN RatAdd(RatInt(5000),
                        RatAdd(speed(md.min_moves_to_draw),
                               Rat(draws * 500, total)))
            ELSE IntDivRat(100, RatAdd(RatInt(1), Rat(losses * 10, total)))
        capture_bonus  == RatInt(md.total_captures * 10)
        material_bonus == Rat(md.total_material_gained, 10)
    IN  IF total = 0 THEN RatInt(0)
        ELSE RatAdd(base_score, RatAdd(capture_bonus, material_bonus))

get_move_score(md) ==
    LET wins   == md.wins
        draws  == md.draws
        losses == md.losses
        total  == wins + draws + losses
        speed(min_moves) ==
            IF min_moves # Infinity THEN Rat(1000, min_moves) ELSE RatInt(0)
        base_score ==
            IF wins > 0
            THEN RatAdd(RatInt(10000),
                        RatAdd(speed(md.min_moves_to_win),
                               Rat(wins * 500, total)))
            ELSE IF draws > 0
            THEN RatAdd(RatInt(5000),
                        RatAdd(speed(md.min_moves_to_draw),
                               Rat(draws * 500, total)))
            ELSE IntDivRat(100, RatAdd(RatInt(1), Rat(losses * 10, total)))
        capture_bonus  == RatInt(md.total_captures * 10)
        material_bonus == Rat(md.total_material_gained, 10)
    IN  IF total = 0 THEN RatInt(0)
        ELSE RatAdd(base_score, RatAdd(capture_bonus, material_bonus))

(***************************************************************************)
(* should_retry_move                                                       *)
(***************************************************************************)
\* a faulty rule: a move is given up after four trials, not three
should_retry_move_late(md) ==
    LET total == md.wins + md.draws + md.losses
    IN  IF md.wins > 0 \/ md.draws > 0 THEN TRUE
        ELSE IF total <= 3 THEN TRUE
        ELSE FALSE

should_retry_move(md) ==
    LET total == md.wins + md.draws + md.losses
    IN  IF md.wins > 0 \/ md.draws > 0 THEN TRUE
        ELSE IF total < 3 THEN TRUE
        ELSE FALSE

(***************************************************************************)
(* get_best_move_from_memory: the loop keeps the first item whose score is *)
(* strictly above every earlier one, starting from best_score = -1.        *)
(***************************************************************************)
RECURSIVE BestLoop(_, _, _, _)
BestLoop(bucket, i, best_move, best_score) ==
    IF i > Len(bucket) THEN best_move
    ELSE LET score == get_move_score(bucket[i].data)
         IN  IF RatLess(best_score, score)
             THEN BestLoop(bucket, i + 1, Some(bucket[i].uci), score)
             ELSE BestLoop(bucket, i + 1, best_move, best_score)

get_best_move_from_memory(mem, key) ==
    IF key \notin DOMAIN mem \/ mem[key] = <<>> THEN None
    ELSE BestLoop(mem[key], 1, None, RatInt(-1))

(***************************************************************************)
(* Positions.  A position is what the rules engine answers about it:       *)
(*   fen, white   the first four FEN fields and the colour the learner     *)
(*                plays: together the position key                         *)
(*   in_check     board.is_check()                                         *)
(*   threats      len(detect_immediate_threats(board))                     *)
(*   moves        board.legal_moves in generation order, each with         *)
(*     mate, check     the position after the move is checkmate / check    *)
(*     gain            get_captured_piece_value(board, move), 0 when the   *)
(*                     move captures nothing                               *)
(*     threats_after   len(detect_immediate_threats(test_board))           *)
(*     hang            the value of the moved piece when the game is not   *)
(*                     over after the move and the piece stands attacked   *)
(*                     and undefended, else 0                              *)
(***************************************************************************)
Mv(uci, mate, check, gain, threats_after, hang) ==
    [uci |-> uci, mate |-> mate, check |-> check, gain |-> gain,
     threats_after |-> threats_after, hang |-> hang]

Quiet(uci)          == Mv(uci, FALSE, FALSE, 0, 0, 0)
Capture(uci, value) == Mv(uci, FALSE, FALSE, value, 0, 0)
Check(uci, value)   == Mv(uci, FALSE, TRUE, value, 0, 0)
Mate(uci)           == Mv(uci, TRUE, TRUE, 0, 0, 0)

Pos(fen, white, in_check, threats, moves) ==
    [fen |-> fen, white |-> white, in_check |-> in_check,
     threats |-> threats, moves |-> moves]

\* chess.Board() of __init__, cut to two of its legal moves; none of them
\* is a capture or a check
StartBoard == Pos("start", TRUE, FALSE, 0, <<Quiet(1), Quiet(2)>>)

\* the same four FEN fields, the learner plays Black
StartAsBlack == Pos("start", FALSE, FALSE, 0, <<Quiet(1)>>)

\* a quiet move, a rook capture, a check
TacticBoard ==
    Pos("tactic", TRUE, FALSE, 0, <<Quiet(1), Capture(2, 500), Check(3, 0)>>)

\* one legal move, a pawn capture
PawnBoard == Pos("pawn", TRUE, FALSE, 0, <<Capture(1, 100)>>)

\* the positions set_position is called with
Boards ==
    { StartBoard, StartAsBlack, TacticBoard, PawnBoard,
      \* in check: capture the checking knight, or step aside
      Pos("check", TRUE, TRUE, 1, <<Quiet(1), Capture(2, 320)>>),
      \* checkmated: no legal move
      Pos("mated", TRUE, TRUE, 1, <<>>),
      \* mate in one
      Pos("mate1", TRUE, FALSE, 0, <<Quiet(1), Mate(2)>>),
      \* a knight to win
      Pos("knight", TRUE, FALSE, 0, <<Capture(1, 320), Quiet(2)>>),
      \* in check with a mating reply
      Pos("race", TRUE, TRUE, 1, <<Quiet(1), Mate(2)>>) }

\* six legal moves, no danger: two checks (one of them takes a knight), a
\* queen, a rook and a pawn to take, a quiet move
StormBoard ==
    Pos("storm", TRUE, FALSE, 0,
        <<Quiet(1), Capture(2, 100), Check(3, 320), Capture(4, 900),
          Check(5, 0), Capture(6, 500)>>)

\* six legal moves in check, one threat: step aside, take a knight, a move
\* that leaves the threat, a move that hangs the queen, take a pawn, a
\* checking reply
SiegeBoard ==
    Pos("siege", TRUE, TRUE, 1,
        <<Quiet(1), Capture(2, 320), Mv(3, FALSE, FALSE, 0, 1, 0),
          Mv(4, FALSE, FALSE, 0, 0, 900), Capture(5, 100),
          Mv(6, FALSE, TRUE, 0, 1, 0)>>)

\* the side to move is the colour the learner plays: White is to move in
\* every position of Boards
LearnerToMove(bd) == bd.white

\* _get_position_key: the first four FEN fields and the learner's colour
position_key(bd) == <<bd.fen, IF bd.white THEN "white" ELSE "black">>

\* board.san(move): the notation of a legal move
San(uci) == <<"san", uci>>

\* list(board.legal_moves) as uci
LegalMoves(bd) == [i \in 1..Len(bd.moves) |-> bd.moves[i].uci]

(***************************************************************************)
(* list.sort(key=..., reverse=True): descending and stable.  The list is   *)
(* given as its items paired with their keys.                              *)
(***************************************************************************)
RECURSIVE InsertDesc(_, _, _)
InsertDesc(sorted, x, i) ==
    IF i > Len(sorted) THEN Append(sorted, x)
    ELSE IF sorted[i].key < x.key
    THEN SubSeq(sorted, 1, i - 1) \o <<x>> \o SubSeq(sorted, i, Len(sorted))
    ELSE InsertDesc(sorted, x, i + 1)

RECURSIVE SortDescFrom(_, _, _)
SortDescFrom(keyed, i, acc) ==
    IF i > Len(keyed) THEN acc
    ELSE SortDescFrom(keyed, i + 1, InsertDesc(acc, keyed[i], 1))

SortDesc(keyed) ==
    LET sorted == SortDescFrom(keyed, 1, << >>)
    IN  [i \in 1..Len(sorted) |-> sorted[i].item]

(***************************************************************************)
(* calculate_attack_sequences                                              *)
(***************************************************************************)
AttackEntries(m) ==
    IF m.mate
    THEN << [move |-> m.uci, result |-> "checkmate", material_gain |-> m.gain] >>
    ELSE (IF m.check
          THEN << [move |-> m.uci, result |-> "check", material_gain |-> m.gain] >>
          ELSE << >>)
         \o
         (IF m.gain > 0
          THEN << [move |-> m.uci, result |-> "capture", material_gain |-> m.gain] >>
          ELSE << >>)

\* a faulty key: a check is worth 500, below a queen capture
sequence_priority_low_check(seq) ==
    IF seq.result = "checkmate" THEN 10000
    ELSE IF seq.result = "check" THEN 500 + seq.material_gain
    ELSE seq.material_gain

sequence_priority(seq) ==
    IF seq.result = "checkmate" THEN 10000
    ELSE IF seq.result = "check" THEN 5000 + seq.material_gain
    ELSE seq.material_gain

RECURSIVE AttackLoop(_, _)
AttackLoop(moves, i) ==
    IF i > Len(moves) THEN << >>
    ELSE AttackEntries(moves[i]) \o AttackLoop(moves, i + 1)

calculate_attack_sequences(bd) ==
    LET sequences == AttackLoop(bd.moves, 1)
    IN  SortDesc([i \in 1..Len(sequences) |->
                     [key |-> sequence_priority(sequences[i]),
                      item |-> sequences[i]]])

(***************************************************************************)
(* calculate_defense_sequences                                             *)
(***************************************************************************)
DefenseEntry(bd, m) ==
    [move |-> m.uci,
     removes_check |-> IF bd.in_check THEN ~m.check ELSE FALSE,
     threats_reduced |-> bd.threats - m.threats_after,
     material_cost |-> (0 - m.gain) + m.hang,
     king_safer |-> m.threats_after < bd.threats]

defense_priority(d) ==
    (IF d.removes_check THEN 10000 ELSE 0)
    + d.threats_reduced * 1000 - d.material_cost

\* a faulty list: only the moves that remove the check or reduce the threats
\* are kept
calculate_defense_sequences_useful_only(bd) ==
    LET defenses == SelectSeq([i \in 1..Len(bd.moves) |->
                                  DefenseEntry(bd, bd.moves[i])],
                              LAMBDA d : d.removes_check \/ d.threats_reduced > 0)
    IN  SortDesc([i \in 1..Len(defenses) |->
                     [key |-> defense_priority(defenses[i]),
                      item |-> defenses[i]]])

calculate_defense_sequences(bd) ==
    LET defenses == [i \in 1..Len(bd.moves) |-> DefenseEntry(bd, bd.moves[i])]
    IN  SortDesc([i \in 1..Len(defenses) |->
                     [key |-> defense_priority(defenses[i]),
                      item |-> defenses[i]]])

(***************************************************************************)
(* analyze_position_before_move                                            *)
(***************************************************************************)
analyze_position_defends_first(bd) ==
    LET attack_sequences == calculate_attack_sequences(bd)
        danger == bd.in_check \/ bd.threats > 0
        defense_sequences ==
            IF danger THEN calculate_defense_sequences(bd) ELSE << >>
        strategy ==
            IF danger
            THEN IF defense_sequences # << >> THEN "defend"
                 ELSE IF attack_sequences # << >>
                         /\ attack_sequences[1].result = "checkmate"
                 THEN "attack"
                 ELSE "counter_attack"
            ELSE IF attack_sequences # << >>
            THEN IF attack_sequences[1].result = "checkmate" THEN "checkmate"
                 ELSE IF attack_sequences[1].result = "check" THEN "attack"
                 ELSE IF attack_sequences[1].material_gain >= 300 THEN "capture"
                 ELSE "positional"
            ELSE "positional"
    IN  [king_in_check |-> bd.in_check,
         immediate_threats |-> bd.threats,
         attack_sequences |-> attack_sequences,
         defense_sequences |-> defense_sequences,
         recommended_strategy |-> strategy]

analyze_position_before_move(bd) ==
    LET attack_sequences == calculate_attack_sequences(bd)
        danger == bd.in_check \/ bd.threats > 0
        defense_sequences ==
            IF danger THEN calculate_defense_sequences(bd) ELSE << >>
        strategy ==
            IF danger
            THEN IF attack_sequences # << >>
                    /\ attack_sequences[1].result = "checkmate"
                 THEN "attack"
                 ELSE IF defense_sequences # << >> THEN "defend"
                 ELSE "counter_attack"
            ELSE IF attack_sequences # << >>
            THEN IF attack_sequences[1].result = "checkmate" THEN "checkmate"
                 ELSE IF attack_sequences[1].result = "check" THEN "attack"
                 ELSE IF attack_sequences[1].material_gain >= 300 THEN "capture"
                 ELSE "positional"
            ELSE "positional"
    IN  [king_in_check |-> bd.in_check,
         immediate_threats |-> bd.threats,
         attack_sequences |-> attack_sequences,
         defense_sequences |-> defense_sequences,
         recommended_strategy |-> strategy]

(***************************************************************************)
(* simulate_tactical_game, seen from its caller: a result, a ply count and *)
(* the tactical trace.  The loop adds at most one capture per ply after    *)
(* the first move, and stops at max_depth: a game of one ply has an empty  *)
(* trace, and only a long game reaches MaxCaptures and MaxSwing.           *)
(***************************************************************************)
Results == {"WIN", "DRAW", "LOSS"}

Tactical(captures, swing) ==
    [captures_by_us |-> captures,
     captures_by_opponent |-> 0,
     material_balance_change |-> swing,
     checks_given |-> 0,
     checks_received |-> 0]

LongGameTraces ==
    { Tactical(0, 0 - MaxSwing), Tactical(0, 0), Tactical(MaxCaptures, MaxSwing) }

Game(result, move_count, trace) ==
    [result |-> result, move_count |-> move_count, tactical_info |-> trace]

SimOutcomes ==
    { Game(r, 1, Tactical(0, 0)) : r \in Results }
    \cup
    { Game(r, max_depth, t) : r \in Results, t \in LongGameTraces }

\* the games simulate_tactical_game can return for a first move: after a
\* mating move the game is over, the loop is not entered and the result is
\* WIN in one ply with an empty trace
Simulations(bd, move_uci, outcomes) ==
    IF \E i \in 1..Len(bd.moves) : bd.moves[i].uci = move_uci /\ bd.moves[i].mate
    THEN { Game(IF LearnerToMove(bd) THEN "WIN" ELSE "LOSS", 1, Tactical(0, 0)) }
    ELSE outcomes

\* the games of the scopes that record many outcomes
FewOutcomes ==
    { Game("WIN", 1, Tactical(0, 0)),
      Game("DRAW", 1, Tactical(0, 0)),
      Game("DRAW", max_depth, Tactical(MaxCaptures, MaxSwing)),
      Game("LOSS", max_depth, Tactical(0, 0 - MaxSwing)) }

\* the games of the scope with direct calls
StoreOutcomes ==
    { Game("WIN", 1, Tactical(0, 0)),
      Game("DRAW", max_depth, Tactical(MaxCaptures, MaxSwing)),
      Game("LOSS", max_depth, Tactical(0, 0 - MaxSwing)) }

\* long games with the largest traces: the better result with the poorer
\* trace, the poorer result with the richer trace
SwingOutcomes(better, poorer) ==
    { Game(better, max_depth, Tactical(0, 0 - MaxSwing)),
      Game(poorer, max_depth, Tactical(MaxCaptures, MaxSwing)) }

(***************************************************************************)
(* Scopes.  A behaviour runs in one scope, which bounds what its           *)
(* environment does: the positions asked about, the games the simulator    *)
(* produces, whether record_move_result is also called directly (by a user *)
(* of the class), how many outcomes are recorded and how many writes of    *)
(* the file fail, and the largest attempt budget of a search.              *)
(*   WideScope(bd)   one position, every game, few recordings              *)
(*   DeepScope(bd)   one position, four games, many recordings             *)
(*   StoreScope      direct calls and failing writes on the two start      *)
(*                   keys, three games                                     *)
(*   SwingScope(..)  two positions of one legal move, two long games with  *)
(*                   the largest traces                                    *)
(*   MinimaScope     direct calls on one position, two wins of different   *)
(*                   length                                                *)
(*   PriorityScope(bd) one position, two games, a budget that reaches each *)
(*                   of six legal moves, or one of two moves three times   *)
(***************************************************************************)
WideScope(bd) ==
    [boards |-> {bd}, outcomes |-> SimOutcomes, direct |-> FALSE,
     recordings |-> MaxRecordingsWide, strength |-> MaxStrength,
     save_faults |-> 0]

DeepScope(bd) ==
    [boards |-> {bd}, outcomes |-> FewOutcomes, direct |-> FALSE,
     recordings |-> MaxRecordingsDeep, strength |-> MaxStrength,
     save_faults |-> 0]

StoreScope ==
    [boards |-> {StartBoard, StartAsBlack}, outcomes |-> StoreOutcomes,
     direct |-> TRUE, recordings |-> MaxRecordingsStore, strength |-> 1,
     save_faults |-> MaxSaveFaults]

\* the games of the scope of long searches: a quick win, a long loss
PriorityOutcomes ==
    { Game("WIN", 1, Tactical(0, 0)),
      Game("LOSS", max_depth, Tactical(0, 0 - MaxSwing)) }

PriorityScope(bd) ==
    [boards |-> {bd}, outcomes |-> PriorityOutcomes, direct |-> FALSE,
     recordings |-> MaxRecordingsPriority,
     strength |-> MaxRecordingsPriority + 1,
     save_faults |-> 0]

\* a quick win and a slow win, recorded by direct calls
MinimaOutcomes ==
    { Game("WIN", 1, Tactical(0, 0)),
      Game("WIN", max_depth, Tactical(0, 0)) }

MinimaScope ==
    [boards |-> {PawnBoard}, outcomes |-> MinimaOutcomes, direct |-> TRUE,
     recordings |-> MaxRecordingsStore, strength |-> 1, save_faults |-> 0]

SwingScope(better, poorer) ==
    [boards |-> {PawnBoard, StartAsBlack},
     outcomes |-> SwingOutcomes(better, poorer),
     direct |-> FALSE, recordings |-> MaxRecordingsSwing,
     strength |-> MaxStrength, save_faults |-> 0]

Scopes ==
    { WideScope(bd) : bd \in Boards }
    \cup { DeepScope(TacticBoard), DeepScope(PawnBoard) }
    \cup { StoreScope, SwingScope("WIN", "DRAW"), SwingScope("DRAW", "LOSS") }
    \cup { PriorityScope(StormBoard), PriorityScope(SiegeBoard),
           PriorityScope(StartBoard) }
    \cup { MinimaScope }

(***************************************************************************)
(* State.                                                                  *)
(***************************************************************************)
VARIABLES
    memory,          \* self.memory
    disk,            \* the content of memory_file
    board,           \* self.board with self.play_as_white
    clock,           \* outcomes recorded so far: datetime.now() of the next
    pc,              \* where the process stands
    attempts,        \* find_winning_move: attempts
    max_strength,    \* find_winning_move: max_strength
    priority_moves,  \* find_winning_move: priority_moves
    best_draw,       \* find_winning_move: best_draw
    ret,             \* what the last find_winning_move returned
    hist,            \* history of the running search, for the properties
    scope,           \* the scope of the behaviour
    save_faults,     \* writes of memory_file that failed so far
    sim,             \* simulate_tactical_game run on its own: its locals
    probe            \* a function of the class applied on its own: its
                     \* argument and its result

vars == <<memory, disk, board, clock, pc, attempts, max_strength,
          priority_moves, best_draw, ret, hist, scope, save_faults,
          sim, probe>>

\* no simulation, no function, is run on its own
Idle == [tag |-> "Idle"]

AsideVars == <<sim, probe>>

\* a local name that was never assigned: reading it raises UnboundLocalError
Unbound == [tag |-> "Unbound"]

\* the search ended in an exception
Raised == [tag |-> "Raised"]

\* find_winning_move has not returned
NoReturn == [tag |-> "NoReturn"]

\* memory_file does not exist
NoFile == [tag |-> "NoFile"]

\* memory_file holds a write that did not complete
Corrupt == [tag |-> "Corrupt"]

NoHist == [memory0 |-> << >>, disk0 |-> NoFile, sims |-> 0, last |-> None,
           from_memory |-> FALSE]

\* json.dump of a number: float('inf') is written as the token Infinity
JsonNumber(x) ==
    IF x = Infinity THEN [token |-> "Infinity", digits |-> 0]
    ELSE [token |-> "number", digits |-> x]

\* json.load of a number
ParseNumber(t) == IF t.token = "Infinity" THEN Infinity ELSE t.digits

\* json.dump(self.memory): the document written to memory_file
JsonDump(mem) ==
    [k \in DOMAIN mem |->
        [i \in 1..Len(mem[k]) |->
            [uci |-> mem[k][i].uci,
             data |-> [mem[k][i].data EXCEPT
                          !.min_moves_to_win = JsonNumber(@),
                          !.min_moves_to_draw = JsonNumber(@)]]]]

\* json.load of a document
JsonLoad(doc) ==
    [k \in DOMAIN doc |->
        [i \in 1..Len(doc[k]) |->
            [uci |-> doc[k][i].uci,
             data |-> [doc[k][i].data EXCEPT
                          !.min_moves_to_win = ParseNumber(@),
                          !.min_moves_to_draw = ParseNumber(@)]]]]

\* _load_memory
load_memory(file) == IF file.tag = "Some" THEN JsonLoad(file.val) ELSE << >>

\* _save_memory: the file after a write that failed.  The write can fail
\* before the file is opened (the file is left as it was) or part-way (the
\* file is left unparsable); the exception is caught and the run goes on.
FailedWrite(file) == { file, Corrupt }

\* a faulty save: the store is written as it was before the outcome
SaveMemoryStale ==
    \/ /\ disk' = Some(JsonDump(memory))
       /\ save_faults' = save_faults
    \/ /\ save_faults < scope.save_faults
       /\ disk' \in FailedWrite(disk)
       /\ save_faults' = save_faults + 1

\* _save_memory
SaveMemory ==
    \/ /\ disk' = Some(JsonDump(memory'))
       /\ save_faults' = save_faults
    \/ /\ save_faults < scope.save_faults
       /\ disk' \in FailedWrite(disk)
       /\ save_faults' = save_faults + 1

Init ==
    /\ scope \in Scopes
    /\ save_faults = 0
    /\ disk = NoFile
    /\ memory = load_memory(disk)
    /\ board = StartBoard
    /\ clock = 0
    /\ pc = "start"
    /\ attempts = 0
    /\ max_strength = 0
    /\ priority_moves = << >>
    /\ best_draw = Unbound
    /\ ret = NoReturn
    /\ hist = NoHist
    /\ sim = Idle
    /\ probe = Idle

SearchVars == <<attempts, max_strength, priority_moves, best_draw, ret, hist>>

\* the locals and the result of a finished search are gone
ForgetSearch ==
    /\ attempts' = 0
    /\ max_strength' = 0
    /\ priority_moves' = << >>
    /\ best_draw' = Unbound
    /\ ret' = NoReturn
    /\ hist' = NoHist

(***************************************************************************)
(* set_position                                                            *)
(***************************************************************************)
SetPosition ==
    /\ pc \in {"start", "ready"}
    /\ \E bd \in scope.boards : board' = bd
    /\ pc' = "ready"
    /\ UNCHANGED SearchVars
    /\ UNCHANGED <<memory, disk, clock, scope, save_faults, sim, probe>>

(***************************************************************************)
(* record_move_result called by a user of the class, for a legal move of   *)
(* the current position, with or without a tactical trace                  *)
(***************************************************************************)
RecordMoveResult ==
    /\ pc = "ready"
    /\ scope.direct
    /\ clock < scope.recordings
    /\ \E i \in 1..Len(board.moves), o \in scope.outcomes, traced \in BOOLEAN :
         /\ memory' = RecordInMemory(memory, position_key(board),
                                     board.moves[i].uci, San(board.moves[i].uci),
                                     o.result, o.move_count,
                                     IF traced THEN Some(o.tactical_info) ELSE None,
                                     clock + 1)
         /\ SaveMemory
    /\ clock' = clock + 1
    /\ UNCHANGED <<board, pc, scope, SearchVars, sim, probe>>

(***************************************************************************)
(* get_untried_moves                                                       *)
(***************************************************************************)
get_untried_moves(mem, bd) ==
    LET bucket == Bucket(mem, position_key(bd))
    IN  SelectSeq(LegalMoves(bd), LAMBDA uci : ~HasMove(bucket, uci))

InSeq(x, seq) == \E i \in 1..Len(seq) : seq[i] = x

\* list.remove(x): the list without its first x
RemoveFirst(seq, x) ==
    LET i == CHOOSE j \in 1..Len(seq) :
                 seq[j] = x /\ \A k \in 1..(j - 1) : seq[k] # x
    IN  SubSeq(seq, 1, i - 1) \o SubSeq(seq, i + 1, Len(seq))

FirstN(seq, n) == SubSeq(seq, 1, IF Len(seq) < n THEN Len(seq) ELSE n)

(***************************************************************************)
(* find_winning_move, step 2: what the best move of the store leads to.    *)
(* do = "return": the move is returned; do = "search": the loop runs, with *)
(* best_draw as given (Unbound on the paths that never assign it).         *)
(***************************************************************************)
\* a faulty step 2: in danger, a best move that only drew is returned too
MemoryStepDrawAccepted(strategy, best, bucket) ==
    IF best = None
    THEN [do |-> "search", best_draw |-> None]
    ELSE LET move_data == MoveData(bucket, best.val)
             found == Some([san |-> move_data.san, uci |-> best.val])
         IN  IF move_data.wins > 0 \/ move_data.draws > 0
             THEN [do |-> "return", best_draw |-> found]
             ELSE [do |-> "search", best_draw |-> Unbound]

MemoryStep(strategy, best, bucket) ==
    IF best = None
    THEN [do |-> "search", best_draw |-> None]
    ELSE LET move_data == MoveData(bucket, best.val)
             found == Some([san |-> move_data.san, uci |-> best.val])
         IN  IF strategy \in {"defend", "counter_attack"}
             THEN IF move_data.wins > 0
                  THEN [do |-> "return", best_draw |-> found]
                  ELSE [do |-> "search", best_draw |-> Unbound]
             ELSE IF move_data.wins > 0
             THEN [do |-> "return", best_draw |-> found]
             ELSE IF move_data.draws > 0
             THEN [do |-> "search", best_draw |-> found]
             ELSE [do |-> "search", best_draw |-> Unbound]

(***************************************************************************)
(* find_winning_move, step 3: the priority moves of the strategy           *)
(***************************************************************************)
\* a faulty step 3: the checkmate strategy gets no priority moves
PriorityMovesNoCheckmate(analysis) ==
    IF analysis.recommended_strategy = "defend"
    THEN LET first == FirstN(analysis.defense_sequences, 5)
         IN  [i \in 1..Len(first) |-> first[i].move]
    ELSE IF analysis.recommended_strategy \in {"attack", "capture"}
    THEN LET first == FirstN(analysis.attack_sequences, 5)
         IN  [i \in 1..Len(first) |-> first[i].move]
    ELSE << >>

\* a faulty step 3: the whole ranked list is taken, not its first 5 entries
PriorityMovesUncut(analysis) ==
    IF analysis.recommended_strategy = "defend"
    THEN [i \in 1..Len(analysis.defense_sequences) |->
              analysis.defense_sequences[i].move]
    ELSE IF analysis.recommended_strategy \in {"attack", "checkmate", "capture"}
    THEN [i \in 1..Len(analysis.attack_sequences) |->
              analysis.attack_sequences[i].move]
    ELSE << >>

PriorityMoves(analysis) ==
    IF analysis.recommended_strategy = "defend"
    THEN LET first == FirstN(analysis.defense_sequences, 5)
         IN  [i \in 1..Len(first) |-> first[i].move]
    ELSE IF analysis.recommended_strategy \in {"attack", "checkmate", "capture"}
    THEN LET first == FirstN(analysis.attack_sequences, 5)
         IN  [i \in 1..Len(first) |-> first[i].move]
    ELSE << >>

(***************************************************************************)
(* find_winning_move, the choice of the move of one attempt: the set of    *)
(* moves the attempt can simulate, each with its source and the priority   *)
(* list it leaves.  random.choice is any element.  The empty set is the    *)
(* break of the loop.                                                      *)
(***************************************************************************)
\* a faulty retry list: every record of the position, given up or not
RetryCandidatesUnfiltered(bucket) == bucket

RetryCandidates(bucket) == SelectSeq(bucket, LAMBDA item : should_retry_move(item.data))

\* the retry candidates sorted by score, highest first, ties in dict order
RECURSIVE InsertByScore(_, _, _)
InsertByScore(sorted, item, i) ==
    IF i > Len(sorted) THEN Append(sorted, item)
    ELSE IF RatLess(get_move_score(sorted[i].data), get_move_score(item.data))
    THEN SubSeq(sorted, 1, i - 1) \o <<item>> \o SubSeq(sorted, i, Len(sorted))
    ELSE InsertByScore(sorted, item, i + 1)

RECURSIVE SortByScore(_, _, _)
SortByScore(seq, i, acc) ==
    IF i > Len(seq) THEN acc
    ELSE SortByScore(seq, i + 1, InsertByScore(acc, seq[i], 1))

UntriedChoices(untried, prio) ==
    { [move |-> untried[i], source |-> "UNTRIED", priority |-> prio] :
          i \in 1..Len(untried) }

RetryChoices(mem, key) ==
    IF key \in DOMAIN mem
    THEN LET retry_candidates == RetryCandidates(mem[key])
         IN  IF retry_candidates # << >>
             THEN { [move |-> SortByScore(retry_candidates, 1, << >>)[1].uci,
                     source |-> "RETRY", priority |-> << >>] }
             ELSE { }
    ELSE { }

\* a faulty choice: a retry-eligible move of the store is taken before the
\* untried moves
ChooseMoveRetryFirst(mem, bd, prio) ==
    LET untried == get_untried_moves(mem, bd)
        retry   == { [c EXCEPT !.priority = prio] :
                         c \in RetryChoices(mem, position_key(bd)) }
    IN  IF retry # { } THEN retry
        ELSE IF untried # << >> THEN UntriedChoices(untried, prio)
        ELSE { }

\* a faulty choice: a move that has a record is never simulated again
ChooseMoveNoRetry(mem, bd, prio) ==
    LET untried == get_untried_moves(mem, bd)
    IN  IF prio # << >> /\ untried # << >>
        THEN LET priority_untried == SelectSeq(prio, LAMBDA m : InSeq(m, untried))
             IN  IF priority_untried # << >>
                 THEN { [move |-> priority_untried[1], source |-> "PRIORITY",
                         priority |-> RemoveFirst(prio, priority_untried[1])] }
                 ELSE UntriedChoices(untried, prio)
        ELSE IF untried # << >>
        THEN UntriedChoices(untried, prio)
        ELSE { }

ChooseMove(mem, bd, prio) ==
    LET untried == get_untried_moves(mem, bd)
    IN  IF prio # << >> /\ untried # << >>
        THEN LET priority_untried == SelectSeq(prio, LAMBDA m : InSeq(m, untried))
             IN  IF priority_untried # << >>
                 THEN { [move |-> priority_untried[1], source |-> "PRIORITY",
                         priority |-> RemoveFirst(prio, priority_untried[1])] }
                 ELSE UntriedChoices(untried, prio)
        ELSE IF untried # << >>
        THEN UntriedChoices(untried, prio)
        ELSE { [c EXCEPT !.priority = prio] : c \in RetryChoices(mem, position_key(bd)) }

(***************************************************************************)
(* find_winning_move, the best-draw bookkeeping after a DRAW               *)
(***************************************************************************)
\* a faulty bookkeeping: the candidate is replaced on equal material too
DrawStepOnEquality(candidate, move_uci, move_san, bucket) ==
    IF candidate = Unbound THEN Raised
    ELSE IF candidate = None
    THEN Some([san |-> move_san, uci |-> move_uci])
    ELSE LET current_material == MoveData(bucket, move_uci).total_material_gained
             best_material == MoveData(bucket, candidate.val.uci).total_material_gained
         IN  IF current_material >= best_material
             THEN Some([san |-> move_san, uci |-> move_uci])
             ELSE candidate

DrawStep(candidate, move_uci, move_san, bucket) ==
    IF candidate = Unbound THEN Raised
    ELSE IF candidate = None
    THEN Some([san |-> move_san, uci |-> move_uci])
    ELSE LET current_material == MoveData(bucket, move_uci).total_material_gained
             best_material == MoveData(bucket, candidate.val.uci).total_material_gained
         IN  IF current_material > best_material
             THEN Some([san |-> move_san, uci |-> move_uci])
             ELSE candidate

(***************************************************************************)
(* find_winning_move, what follows the recording of an outcome: a win is   *)
(* returned at once, a draw updates the best draw, the loop goes on        *)
(***************************************************************************)
\* a faulty loop: a win is recorded and the search goes on
AfterRecordingWinContinues(result, candidate, move_uci, move_san, bucket) ==
    IF result = "DRAW"
    THEN LET drawn == DrawStep(candidate, move_uci, move_san, bucket)
         IN  IF drawn.tag = "Raised"
             THEN [pc |-> "raised", ret |-> Raised, best_draw |-> candidate]
             ELSE [pc |-> "loop", ret |-> NoReturn, best_draw |-> drawn]
    ELSE [pc |-> "loop", ret |-> NoReturn, best_draw |-> candidate]

\* a faulty bookkeeping: with no candidate yet, a lost move becomes the best
\* draw
AfterRecordingLossKept(result, candidate, move_uci, move_san, bucket) ==
    IF result = "WIN"
    THEN [pc |-> "done", ret |-> Some(move_san), best_draw |-> candidate]
    ELSE IF result = "DRAW"
    THEN LET drawn == DrawStep(candidate, move_uci, move_san, bucket)
         IN  IF drawn.tag = "Raised"
             THEN [pc |-> "raised", ret |-> Raised, best_draw |-> candidate]
             ELSE [pc |-> "loop", ret |-> NoReturn, best_draw |-> drawn]
    ELSE [pc |-> "loop", ret |-> NoReturn,
          best_draw |-> IF candidate = None
                        THEN Some([san |-> move_san, uci |-> move_uci])
                        ELSE candidate]

AfterRecording(result, candidate, move_uci, move_san, bucket) ==
    IF result = "WIN"
    THEN [pc |-> "done", ret |-> Some(move_san), best_draw |-> candidate]
    ELSE IF result = "DRAW"
    THEN LET drawn == DrawStep(candidate, move_uci, move_san, bucket)
         IN  IF drawn.tag = "Raised"
             THEN [pc |-> "raised", ret |-> Raised, best_draw |-> candidate]
             ELSE [pc |-> "loop", ret |-> NoReturn, best_draw |-> drawn]
    ELSE [pc |-> "loop", ret |-> NoReturn, best_draw |-> candidate]

\* a faulty loop condition: one attempt more than the budget
LoopRunsOnceMore(n, budget) == n <= budget

\* the condition of the while loop
LoopRuns(n, budget) == n < budget

(***************************************************************************)
(* find_winning_move, after the loop                                       *)
(***************************************************************************)
FinalReturn(candidate) ==
    IF candidate = Unbound THEN Raised
    ELSE IF candidate # None THEN Some(candidate.val.san)
    ELSE None

(***************************************************************************)
(* find_winning_move, steps 1 to 3: the analysis, the best move of the     *)
(* store, the priority moves                                               *)
(***************************************************************************)
\* a faulty start: memory_file is rewritten when the search starts
FindStartSaving ==
    /\ pc = "ready"
    /\ \E n \in 0..scope.strength :
         LET analysis == analyze_position_before_move(board)
             key      == position_key(board)
             best     == get_best_move_from_memory(memory, key)
             step     == MemoryStep(analysis.recommended_strategy, best,
                                    Bucket(memory, key))
         IN  /\ max_strength' = n
             /\ attempts' = 0
             /\ IF step.do = "return"
                THEN /\ pc' = "done"
                     /\ ret' = Some(step.best_draw.val.san)
                     /\ best_draw' = Unbound
                     /\ priority_moves' = << >>
                ELSE /\ pc' = "loop"
                     /\ ret' = NoReturn
                     /\ best_draw' = step.best_draw
                     /\ priority_moves' = PriorityMoves(analysis)
             /\ hist' = [memory0 |-> memory, disk0 |-> disk, sims |-> 0,
                         last |-> None, from_memory |-> step.do = "return"]
    /\ disk' = Some(JsonDump(memory))
    /\ UNCHANGED <<memory, board, clock, scope, save_faults, sim, probe>>

FindStart ==
    /\ pc = "ready"
    /\ \E n \in 0..scope.strength :
         LET analysis == analyze_position_before_move(board)
             key      == position_key(board)
             best     == get_best_move_from_memory(memory, key)
             step     == MemoryStep(analysis.recommended_strategy, best,
                                    Bucket(memory, key))
         IN  /\ max_strength' = n
             /\ attempts' = 0
             /\ IF step.do = "return"
                THEN /\ pc' = "done"
                     /\ ret' = Some(step.best_draw.val.san)
                     /\ best_draw' = Unbound
                     /\ priority_moves' = << >>
                ELSE /\ pc' = "loop"
                     /\ ret' = NoReturn
                     /\ best_draw' = step.best_draw
                     /\ priority_moves' = PriorityMoves(analysis)
             /\ hist' = [memory0 |-> memory, disk0 |-> disk, sims |-> 0,
                         last |-> None, from_memory |-> step.do = "return"]
    /\ UNCHANGED <<memory, disk, board, clock, scope, save_faults, sim, probe>>

(***************************************************************************)
(* find_winning_move, one attempt of the loop: choose a move, simulate it, *)
(* record the outcome, return on a win, keep the best draw                 *)
(***************************************************************************)
Attempt ==
    /\ pc = "loop"
    /\ LoopRuns(attempts, max_strength)
    /\ clock < scope.recordings
    /\ \E c \in ChooseMove(memory, board, priority_moves) :
       \E o \in Simulations(board, c.move, scope.outcomes) :
         LET key      == position_key(board)
             move_uci == c.move
             move_san == San(c.move)
             after    == AfterRecording(o.result, best_draw, move_uci, move_san,
                                        memory'[key])
         IN  /\ memory' = RecordInMemory(memory, key, move_uci, move_san,
                                         o.result, o.move_count,
                                         Some(o.tactical_info), clock + 1)
             /\ SaveMemory
             /\ priority_moves' = c.priority
             /\ hist' = [hist EXCEPT !.sims = @ + 1,
                                     !.last = Some([move |-> move_uci,
                                                    source |-> c.source,
                                                    result |-> o.result])]
             /\ pc' = after.pc
             /\ ret' = after.ret
             /\ best_draw' = after.best_draw
    /\ attempts' = attempts + 1
    /\ clock' = clock + 1
    /\ UNCHANGED <<board, max_strength, scope, sim, probe>>

(***************************************************************************)
(* find_winning_move, the end of the loop: the budget is spent, or no move *)
(* is left to try; the best draw is returned, or None                      *)
(***************************************************************************)
LoopExit ==
    /\ pc = "loop"
    /\ \/ ~LoopRuns(attempts, max_strength)
       \/ ChooseMove(memory, board, priority_moves) = { }
    /\ LET r == FinalReturn(best_draw)
       IN  /\ ret' = r
           /\ pc' = IF r.tag = "Raised" THEN "raised" ELSE "done"
    /\ attempts' = IF LoopRuns(attempts, max_strength) THEN attempts + 1
                   ELSE attempts
    /\ UNCHANGED <<memory, disk, board, clock, max_strength, priority_moves,
                   best_draw, hist, scope, save_faults, sim, probe>>

(***************************************************************************)
(* The process ends (main returns, or the exception of a search ends it)   *)
(* and a new one starts: __init__ loads the store from memory_file.  main  *)
(* calls set_position and then find_winning_move, once.                    *)
(***************************************************************************)
Restart ==
    /\ pc \in {"ready", "done", "raised"}
    /\ memory' = load_memory(disk)
    /\ board' = StartBoard
    /\ pc' = "start"
    /\ ForgetSearch
    /\ UNCHANGED <<disk, clock, scope, save_faults, sim, probe>>

Next ==
    \/ SetPosition
    \/ RecordMoveResult
    \/ FindStart
    \/ Attempt
    \/ LoopExit
    \/ Restart

Spec == Init /\ [][Next]_vars

(***************************************************************************)
(* Properties.                                                             *)
(***************************************************************************)
\* every MoveRecord of a store
Records(mem) ==
    { mem[k][i].data : <<k, i>> \in
          UNION { {k} \X (1..Len(mem[k])) : k \in DOMAIN mem } }

Trials(md) == md.wins + md.draws + md.losses

\* C1: from an empty store, after any sequence of recorded outcomes, every
\* MoveRecord of the store has wins + draws + losses = len(results).
C1_CountersMatchResults ==
    \A md \in Records(memory) : md.wins + md.draws + md.losses = Len(md.results)

\* a record that holds a win, a draw and a loss
C1_Witness ==
    \E md \in Records(memory) : md.wins > 0 /\ md.draws > 0 /\ md.losses > 0

\* C2: for every pair of MoveRecords r1 with wins > 0 and r2 with wins = 0,
\* each with at least one trial, get_move_score(r1) > get_move_score(r2),
\* whatever total_captures and total_material_gained the store has reached.
C2_AnyWinOutscoresNonWin ==
    \A r1, r2 \in Records(memory) :
        (r1.wins > 0 /\ r2.wins = 0 /\ Trials(r1) >= 1 /\ Trials(r2) >= 1)
            => RatLess(get_move_score(r2), get_move_score(r1))

\* C3: among MoveRecords with wins = 0, every record with draws > 0 scores
\* strictly higher than every record with draws = 0 and losses > 0, whatever
\* total_captures and total_material_gained the store has reached.
C3_DrawsOutrankPureLosses ==
    \A r1, r2 \in Records(memory) :
        (r1.wins = 0 /\ r1.draws > 0 /\ r2.wins = 0 /\ r2.draws = 0 /\ r2.losses > 0)
            => RatLess(get_move_score(r2), get_move_score(r1))

\* C4: get_best_move_from_memory returns a move whenever the key of the
\* current position has a recorded move, the score of the returned record
\* is at least the score of every record under that key, and it returns
\* nothing only when the key has no entries.
C4_BestMoveIsMaximal ==
    LET key    == position_key(board)
        bucket == Bucket(memory, key)
        best   == get_best_move_from_memory(memory, key)
    IN  IF bucket = << >>
        THEN best.tag = "None"
        ELSE /\ best.tag = "Some"
             /\ HasMove(bucket, best.val)
             /\ \A i \in 1..Len(bucket) :
                    RatLeq(get_move_score(bucket[i].data),
                           get_move_score(MoveData(bucket, best.val)))

\* C5: a run of find_winning_move ends in one of two outcomes, a move or the
\* report that no move was found; it never ends in an error.
C5_SearchEndsInMoveOrNone ==
    /\ pc # "raised"
    /\ pc = "done" => ret.tag \in {"Some", "None"}

\* the step is one attempt of the running search: a move was chosen,
\* simulated and recorded
AttemptStep == hist'.sims = hist.sims + 1

\* wins recorded for a move under a key
WinsOf(mem, key, move_uci) ==
    IF HasMove(Bucket(mem, key), move_uci)
    THEN MoveData(Bucket(mem, key), move_uci).wins
    ELSE 0

\* C6: as soon as a simulation of find_winning_move returns WIN, the outcome
\* is recorded and the simulated move is returned; once the search has
\* returned, no further move is selected, simulated or recorded in it, even
\* if attempts remain.
C6_WinStopsSearch ==
    [][ /\ (AttemptStep /\ hist'.last.val.result = "WIN")
            => /\ pc' = "done"
               /\ ret' = Some(San(hist'.last.val.move))
               /\ WinsOf(memory', position_key(board), hist'.last.val.move)
                     = WinsOf(memory, position_key(board), hist'.last.val.move) + 1
        /\ pc = "done"
            => /\ ~AttemptStep
               /\ clock' = clock ]_vars

\* a search that returned on a win with attempts left
C6_Witness ==
    /\ pc = "done"
    /\ hist.last.tag = "Some"
    /\ hist.last.val.result = "WIN"
    /\ attempts < max_strength
    /\ ret = Some(San(hist.last.val.move))

\* the step is steps 1 to 3 of find_winning_move
StartStep == pc = "ready" /\ pc' \in {"done", "loop"}

InDanger(bd) ==
    analyze_position_before_move(bd).recommended_strategy
        \in {"defend", "counter_attack"}

\* C7: step 2 of find_winning_move.  Under defend or counter_attack the best
\* move of the store is returned, with no simulation, if and only if it has
\* wins > 0; under any other strategy it is returned if and only if it has
\* wins > 0, and with wins = 0 and draws > 0 it becomes the first best-draw
\* candidate and the search goes on.
C7_MemoryAcceptance ==
    [][ StartStep =>
          LET key    == position_key(board)
              bucket == Bucket(memory, key)
              best   == get_best_move_from_memory(memory, key)
          IN  best.tag = "Some" =>
                LET md == MoveData(bucket, best.val)
                IN  /\ (pc' = "done") <=> (md.wins > 0)
                    /\ pc' = "done"
                         => /\ ret' = Some(md.san)
                            /\ memory' = memory
                            /\ clock' = clock
                            /\ hist'.sims = 0
                    /\ (~InDanger(board) /\ md.wins = 0 /\ md.draws > 0)
                         => /\ pc' = "loop"
                            /\ best_draw' = Some([san |-> md.san, uci |-> best.val]) ]_vars

\* in danger, a search that returned the winning move of the store
C7_Witness ==
    /\ pc = "done"
    /\ hist.from_memory
    /\ hist.sims = 0
    /\ InDanger(board)
    /\ ret.tag = "Some"

\* C8: in every attempt of find_winning_move the move is a priority
\* candidate that is still untried, if one exists; otherwise an untried
\* legal move, if one exists; otherwise the highest-scoring recorded move
\* for which should_retry_move is true.  So a move with a record is never
\* simulated while a legal move is untried, and an untried move off the
\* priority list is never chosen while an untried priority candidate is left.
C8_ChoicePreference ==
    [][ AttemptStep =>
          LET untried == get_untried_moves(memory, board)
              priority_untried ==
                  SelectSeq(priority_moves, LAMBDA m : InSeq(m, untried))
              bucket  == Bucket(memory, position_key(board))
              move    == hist'.last.val.move
          IN  /\ priority_untried # << >> => InSeq(move, priority_untried)
              /\ (priority_untried = << >> /\ untried # << >>)
                     => InSeq(move, untried)
              /\ untried = << >>
                     => /\ HasMove(bucket, move)
                        /\ should_retry_move(MoveData(bucket, move))
                        /\ \A i \in 1..Len(bucket) :
                               should_retry_move(bucket[i].data)
                                   => RatLeq(get_move_score(bucket[i].data),
                                             get_move_score(MoveData(bucket, move)))
              /\ HasMove(bucket, move) => untried = << >>
              /\ (InSeq(move, untried) /\ ~InSeq(move, priority_moves))
                     => priority_untried = << >> ]_vars

\* a search on a position with priority candidates that went on, after three
\* attempts or more, to retry a recorded move
C8_Witness ==
    /\ hist.last.tag = "Some"
    /\ hist.last.val.source = "RETRY"
    /\ hist.sims >= 3
    /\ analyze_position_before_move(board).recommended_strategy
           \in {"defend", "attack", "checkmate", "capture"}

\* C9: should_retry_move(record) is true if and only if wins > 0 or
\* draws > 0 or wins + draws + losses < 3; it is false exactly when the
\* record has three trials or more and wins = draws = 0.
C9_RetryRule ==
    \A md \in Records(memory) :
        /\ should_retry_move(md) <=> (md.wins > 0 \/ md.draws > 0 \/ Trials(md) < 3)
        /\ ~should_retry_move(md) <=> (Trials(md) >= 3 /\ md.wins = 0 /\ md.draws = 0)

\* a store that holds a record with exactly three trials, all lost
C9_Witness ==
    \E md \in Records(memory) :
        Trials(md) = 3 /\ md.losses = 3 /\ ~should_retry_move(md)

\* the trials of every record of a bucket, summed
RECURSIVE SumTrials(_, _)
SumTrials(bucket, i) ==
    IF i > Len(bucket) THEN 0
    ELSE Trials(bucket[i].data) + SumTrials(bucket, i + 1)

\* the search started with no record for the position
FreshSearch == Bucket(hist.memory0, position_key(board)) = << >>

\* C10: from a store with no record for the position, on a position with a
\* legal move and a budget N >= 1, find_winning_move plays k simulations
\* with 1 <= k <= N, and afterwards wins + draws + losses summed over the
\* records of the position is k; with N = 1 exactly one simulation is played
\* and exactly one MoveRecord exists, with wins + draws + losses = 1.
C10_FreshSearchCounts ==
    (pc \in {"done", "raised"} /\ FreshSearch
        /\ Len(board.moves) >= 1 /\ max_strength >= 1)
    => LET bucket == Bucket(memory, position_key(board))
       IN  /\ pc = "done"
           /\ 1 <= hist.sims
           /\ hist.sims <= max_strength
           /\ SumTrials(bucket, 1) = hist.sims
           /\ max_strength = 1
                => /\ hist.sims = 1
                   /\ Len(bucket) = 1
                   /\ Trials(bucket[1].data) = 1

\* a fresh search of budget 2 or more that spent its whole budget
C10_Witness ==
    /\ pc = "done"
    /\ FreshSearch
    /\ max_strength >= 2
    /\ hist.sims = max_strength
    /\ Len(Bucket(memory, position_key(board))) >= 1

\* some legal move of the position gives checkmate
HasMate(bd) == \E i \in 1..Len(bd.moves) : bd.moves[i].mate

IsMatingMove(bd, move_uci) ==
    \E i \in 1..Len(bd.moves) : bd.moves[i].uci = move_uci /\ bd.moves[i].mate

\* C11: on a position where the learner is to move, with a mating move and
\* no record in the store,
\* calculate_attack_sequences places a checkmating move first with priority
\* 10000 or more, and a search with a budget of 5 or more simulates that
\* move within its first 5 attempts, the simulation is a WIN and the search
\* returns the move.
C11_MateInOneFound ==
    (pc \in {"loop", "done", "raised"} /\ FreshSearch /\ HasMate(board)
        /\ LearnerToMove(board) /\ max_strength >= 5)
    => LET top == calculate_attack_sequences(board)[1]
       IN  /\ top.result = "checkmate"
           /\ IsMatingMove(board, top.move)
           /\ sequence_priority(top) >= 10000
           /\ hist.sims = 0
                => /\ pc = "loop"
                   /\ ChooseMove(memory, board, priority_moves) # { }
                   /\ \A c \in ChooseMove(memory, board, priority_moves) :
                          c.move = top.move
           /\ hist.sims >= 1
                => /\ hist.sims <= 5
                   /\ pc = "done"
                   /\ hist.last.val.move = top.move
                   /\ hist.last.val.result = "WIN"
                   /\ ret = Some(San(top.move))

\* a search of budget 5 that returned the mating move after one simulation
C11_Witness ==
    /\ pc = "done"
    /\ FreshSearch
    /\ HasMate(board)
    /\ LearnerToMove(board)
    /\ max_strength >= 5
    /\ hist.sims = 1
    /\ hist.last.val.result = "WIN"
    /\ IsMatingMove(board, hist.last.val.move)

\* total_material_gained of a move's record under a key
MaterialOf(mem, key, move_uci) ==
    MoveData(Bucket(mem, key), move_uci).total_material_gained

\* C12: on a DRAW when a best-draw candidate exists, the candidate becomes
\* the move just simulated only if that move's total_material_gained is
\* strictly greater than the candidate's, both read after the recording; on
\* equality or less the candidate is unchanged, and a LOSS never changes the
\* candidate.
C12_BestDrawUpdate ==
    [][ AttemptStep =>
          LET key  == position_key(board)
              move == hist'.last.val.move
              res  == hist'.last.val.result
          IN  /\ res = "LOSS" => best_draw' = best_draw
              /\ (res = "DRAW" /\ best_draw.tag = "Some")
                   => IF MaterialOf(memory', key, move)
                            > MaterialOf(memory', key, best_draw.val.uci)
                      THEN best_draw' = Some([san |-> San(move), uci |-> move])
                      ELSE best_draw' = best_draw ]_vars

\* a search whose second draw, of another move with more material, took
\* the place of the first
C12_Witness ==
    /\ pc = "loop"
    /\ hist.sims >= 2
    /\ hist.last.val.result = "DRAW"
    /\ best_draw.tag = "Some"
    /\ best_draw.val.uci = hist.last.val.move
    /\ LET bucket == Bucket(memory, position_key(board))
       IN  \E i \in 1..Len(bucket) :
               /\ bucket[i].uci # hist.last.val.move
               /\ bucket[i].data.draws > 0
               /\ bucket[i].data.total_material_gained
                      < MaterialOf(memory, position_key(board), hist.last.val.move)

(***************************************************************************)
(* simulate_tactical_game on its own, ply by ply.  The position of the     *)
(* simulated board is what the rules engine answers about it after each    *)
(* push: its kind and board.is_check().  The kinds "checkmate",            *)
(* "stalemate", "insufficient", "seventyfive" and "fivefold" are the       *)
(* positions where board.is_game_over(); "fifty" and "repetition" are      *)
(* positions where a draw can be claimed and the game is not over.         *)
(***************************************************************************)
\* largest depth cap (--depth) of a simulation run on its own
MaxDepthCap == 3

PositionKinds ==
    { "open", "fifty", "repetition",
      "checkmate", "stalemate", "insufficient", "seventyfive", "fivefold" }

is_game_over(kind) ==
    kind \in {"checkmate", "stalemate", "insufficient", "seventyfive", "fivefold"}

\* the positions a push can lead to: a checkmate is a check, a stalemate is
\* not
PushedPositions ==
    { p \in [kind : PositionKinds, in_check : BOOLEAN] :
          /\ p.kind = "checkmate" => p.in_check
          /\ p.kind = "stalemate" => ~p.in_check }

\* the calls of simulate_tactical_game: the depth cap, the engine
\* (self.engine is None, or an engine whose calls succeed or raise), and
\* whether the side to move in self.board is the colour the learner plays.
\* The last three fields are not of the program: they keep who pushed last
\* and what the opponent's plies did on the board.
SimCalls ==
    { [pc |-> "call", max_depth |-> d, engine |-> e, learner_first |-> f,
       learner_turn |-> f, kind |-> "open", in_check |-> FALSE,
       move_count |-> 0, captures_by_us |-> 0, captures_by_opponent |-> 0,
       checks_given |-> 0, checks_received |-> 0, result |-> "",
       last_by_learner |-> FALSE, opponent_captures_played |-> 0,
       opponent_checks_played |-> 0] :
          d \in 0..MaxDepthCap, e \in {"none", "up"}, f \in BOOLEAN }

MainVars == <<memory, disk, board, clock, pc, attempts, max_strength,
              priority_moves, best_draw, ret, hist, scope, save_faults>>

\* the files a simulation can start beside: none, or the store written
\* after one recorded win of the first move of the position
SimFiles ==
    { NoFile,
      Some(JsonDump(RecordInMemory(<< >>, position_key(StartBoard),
                                   StartBoard.moves[1].uci,
                                   San(StartBoard.moves[1].uci),
                                   "WIN", 1, None, 0))) }

SimInit ==
    /\ scope = StoreScope
    /\ save_faults = 0
    /\ disk \in SimFiles
    /\ memory = load_memory(disk)
    /\ board = StartBoard
    /\ clock = 0
    /\ pc = "start"
    /\ attempts = 0
    /\ max_strength = 0
    /\ priority_moves = << >>
    /\ best_draw = Unbound
    /\ ret = NoReturn
    /\ hist = NoHist
    /\ probe = Idle
    /\ sim \in SimCalls

\* what the simulation leaves alone apart from self.board
SimFrameVars == <<memory, disk, clock, pc, attempts, max_strength,
                  priority_moves, best_draw, ret, hist, scope, save_faults>>

\* a faulty simulation: sim_board is self.board itself, not a copy, and the
\* first push lands on the learner's position
SelfBoardShared(bd, p) ==
    Pos("pushed", ~bd.white, p.in_check, 0, << >>)

\* self.board after sim_board = self.board.copy(); sim_board.push(...):
\* the push goes to the copy
SelfBoardAfterPush(bd, p) == bd

\* sim_board = self.board.copy(); sim_board.push(first_move); move_count = 1
SimFirstMove ==
    /\ sim.pc = "call"
    /\ \E p \in PushedPositions :
         /\ sim' = [sim EXCEPT !.pc = "loop",
                               !.kind = p.kind,
                               !.in_check = p.in_check,
                               !.move_count = 1,
                               !.learner_turn = ~sim.learner_first,
                               !.last_by_learner = sim.learner_first]
         /\ board' = SelfBoardAfterPush(board, p)
    /\ UNCHANGED <<SimFrameVars, probe>>

\* the condition of the while loop
SimLoopRuns(sm) == ~is_game_over(sm.kind) /\ sm.move_count < sm.max_depth

Count(flag) == IF flag THEN 1 ELSE 0

\* a ply of the learner: a capture is appended to captures_by_us, a check
\* is counted in checks_given
SimLearnerPly ==
    /\ sim.pc = "loop"
    /\ SimLoopRuns(sim)
    /\ sim.learner_turn
    /\ \E p \in PushedPositions, capture \in BOOLEAN :
         sim' = [sim EXCEPT !.kind = p.kind,
                            !.in_check = p.in_check,
                            !.captures_by_us = @ + Count(capture),
                            !.checks_given = @ + Count(p.in_check),
                            !.move_count = @ + 1,
                            !.learner_turn = FALSE,
                            !.last_by_learner = TRUE]
    /\ UNCHANGED <<MainVars, probe>>

\* a ply of the opponent played by the engine
SimOraclePly ==
    /\ sim.pc = "loop"
    /\ SimLoopRuns(sim)
    /\ ~sim.learner_turn
    /\ sim.engine = "up"
    /\ \E p \in PushedPositions, capture \in BOOLEAN :
         sim' = [sim EXCEPT !.kind = p.kind,
                            !.in_check = p.in_check,
                            !.captures_by_opponent = @ + Count(capture),
                            !.checks_received = @ + Count(p.in_check),
                            !.move_count = @ + 1,
                            !.learner_turn = TRUE,
                            !.last_by_learner = FALSE,
                            !.opponent_captures_played = @ + Count(capture),
                            !.opponent_checks_played = @ + Count(p.in_check)]
    /\ UNCHANGED <<MainVars, probe>>

\* the sim after a random legal move of the opponent is pushed
RandomOpponentPush(sm, p, capture) ==
    [sm EXCEPT !.kind = p.kind,
               !.in_check = p.in_check,
               !.move_count = @ + 1,
               !.learner_turn = TRUE,
               !.last_by_learner = FALSE,
               !.opponent_captures_played = @ + Count(capture),
               !.opponent_checks_played = @ + Count(p.in_check)]

\* a ply of the opponent where the call of the engine raises: the bare
\* except pushes a random legal move
SimOracleFails ==
    /\ sim.pc = "loop"
    /\ SimLoopRuns(sim)
    /\ ~sim.learner_turn
    /\ sim.engine = "up"
    /\ \E p \in PushedPositions, capture \in BOOLEAN :
         sim' = RandomOpponentPush(sim, p, capture)
    /\ UNCHANGED <<MainVars, probe>>

\* a ply of the opponent without engine (testing mode): a random legal move
SimRandomPly ==
    /\ sim.pc = "loop"
    /\ SimLoopRuns(sim)
    /\ ~sim.learner_turn
    /\ sim.engine = "none"
    /\ \E p \in PushedPositions, capture \in BOOLEAN :
         sim' = RandomOpponentPush(sim, p, capture)
    /\ UNCHANGED <<MainVars, probe>>

\* a faulty classification: every checkmate is a win of the learner
GameResultMateIsWin(kind, learner_to_move) ==
    IF kind = "checkmate" THEN "WIN" ELSE "DRAW"

\* the result of the final position: the winner of a checkmate is the side
\* that is not to move
GameResult(kind, learner_to_move) ==
    IF kind = "checkmate"
    THEN IF ~learner_to_move THEN "WIN" ELSE "LOSS"
    ELSE "DRAW"

\* the loop is left and the result is returned
SimReturn ==
    /\ sim.pc = "loop"
    /\ ~SimLoopRuns(sim)
    /\ sim' = [sim EXCEPT !.pc = "returned",
                          !.result = GameResult(sim.kind, sim.learner_turn)]
    /\ UNCHANGED <<MainVars, probe>>

SimNext ==
    \/ SimFirstMove
    \/ SimLearnerPly
    \/ SimOraclePly
    \/ SimOracleFails
    \/ SimRandomPly
    \/ SimReturn

SimSpec == SimInit /\ [][SimNext]_vars

\* the simulation under fair scheduling: a step that can be taken is taken
SimFairSpec == SimSpec /\ WF_vars(SimNext)

\* C13: simulate_tactical_game returns an outcome in {WIN, DRAW, LOSS} with
\* a ply count that never exceeds the depth cap, for every depth cap, also
\* when the engine is absent or fails on every call.
C13_ReturnsWithinDepthCap ==
    sim.pc = "returned"
        => /\ sim.result \in Results
           /\ sim.move_count <= sim.max_depth

\* C14: on every ply of the opponent, played by the engine or by the random
\* fallback, a capture is appended to captures_by_opponent and a check of
\* the learner is counted in checks_received.
C14_OpponentPliesTracked ==
    sim.pc \in {"loop", "returned"}
        => /\ sim.captures_by_opponent = sim.opponent_captures_played
           /\ sim.checks_received = sim.opponent_checks_played

\* C15: the outcome of simulate_tactical_game is WIN exactly when the final
\* position is a checkmate delivered by the learner's colour, LOSS exactly
\* when it is a checkmate delivered by the other side, and DRAW in every
\* other case: stalemate, insufficient material, fifty-move rule,
\* repetition, and the depth cap reached without a decisive result.
C15_OutcomeClassification ==
    sim.pc = "returned"
        => /\ sim.result = "WIN"
                <=> (sim.kind = "checkmate" /\ sim.last_by_learner)
           /\ sim.result = "LOSS"
                <=> (sim.kind = "checkmate" /\ ~sim.last_by_learner)
           /\ sim.result = "DRAW" <=> sim.kind # "checkmate"

\* a simulation the opponent won by checkmate at the depth cap, after a ply
\* of the learner
C15_Witness ==
    /\ sim.pc = "returned"
    /\ sim.result = "LOSS"
    /\ sim.kind = "checkmate"
    /\ sim.move_count = sim.max_depth
    /\ sim.move_count >= 3

\* the step records one outcome (record_move_result ran)
RecordStep == clock' = clock + 1

\* the trials of every record of a store, summed
RECURSIVE SumOverKeys(_, _)
SumOverKeys(mem, keys) ==
    IF keys = { } THEN 0
    ELSE LET k == CHOOSE x \in keys : TRUE
         IN  SumTrials(mem[k], 1) + SumOverKeys(mem, keys \ {k})

TotalTrials(mem) == SumOverKeys(mem, DOMAIN mem)

\* C16: memory_file is rewritten after every record_move_result.  When
\* the save succeeds the file holds the whole in-memory store; when it
\* fails the in-memory store keeps the outcome and the run goes on (the
\* step raises nothing of its own); the in-memory store changes by
\* recordings only, so the next successful save holds every outcome
\* recorded since the last successful write.
C16_SavesFollowTheStore ==
    [][ /\ RecordStep
            => /\ TotalTrials(memory') = TotalTrials(memory) + 1
               /\ save_faults' = save_faults
                    => /\ disk'.tag = "Some"
                       /\ load_memory(disk') = memory'
               /\ save_faults' # save_faults
                    => /\ pc' # "start"
                       /\ pc' = "raised" => best_draw = Unbound
        /\ (~RecordStep /\ pc' # "start")
            => /\ memory' = memory
               /\ disk' = disk ]_vars

\* a failed save followed, in the same run, by a successful one: the file
\* holds both outcomes
C16_Witness ==
    /\ save_faults = 1
    /\ disk.tag = "Some"
    /\ load_memory(disk) = memory
    /\ TotalTrials(memory) = 2

(***************************************************************************)
(* The position analysis on its own: a position is built move by move and  *)
(* analyze_position_before_move is applied to it.                          *)
(***************************************************************************)
\* most legal moves of a position that is analysed on its own
MaxProbeMoves == 3

\* get_captured_piece_value of a move: no capture, a pawn, a knight, a queen
ProbeGains == {0, 100, 320, 900}

\* the legal moves of such a position: a mating move, a checking move or
\* another move, each with or without a capture
ProbeMoves(uci) ==
    { Mv(uci, mt, ck, g, 0, 0) : mt \in BOOLEAN, ck \in BOOLEAN, g \in ProbeGains }

\* a checkmate is a check
LegalProbeMoves(uci) == { m \in ProbeMoves(uci) : m.mate => m.check }

AnalysisInit ==
    /\ scope = StoreScope
    /\ save_faults = 0
    /\ disk = NoFile
    /\ memory = load_memory(disk)
    /\ board = StartBoard
    /\ clock = 0
    /\ pc = "start"
    /\ attempts = 0
    /\ max_strength = 0
    /\ priority_moves = << >>
    /\ best_draw = Unbound
    /\ ret = NoReturn
    /\ hist = NoHist
    /\ sim = Idle
    /\ \E in_check \in BOOLEAN, threats \in 0..1 :
         probe = [pc |-> "build",
                  bd |-> Pos("probe", TRUE, in_check, threats, << >>),
                  analysis |-> None]

\* one more legal move in the position
ProbeAddMove ==
    /\ probe.pc = "build"
    /\ Len(probe.bd.moves) < MaxProbeMoves
    /\ \E m \in LegalProbeMoves(Len(probe.bd.moves) + 1) :
         probe' = [probe EXCEPT !.bd.moves = Append(@, m)]
    /\ UNCHANGED <<MainVars, sim>>

\* analyze_position_before_move(board)
ProbeAnalyze ==
    /\ probe.pc = "build"
    /\ probe' = [probe EXCEPT
                   !.pc = "analyzed",
                   !.analysis = Some(analyze_position_before_move(probe.bd))]
    /\ UNCHANGED <<MainVars, sim>>

AnalysisNext ==
    \/ ProbeAddMove
    \/ ProbeAnalyze

AnalysisSpec == AnalysisInit /\ [][AnalysisNext]_vars

\* the kinds of attack sequence, from the lowest to the highest
KindRank(result) ==
    IF result = "checkmate" THEN 3 ELSE IF result = "check" THEN 2 ELSE 1

\* where the loop over the legal moves appended a sequence
GenerationIndex(bd, seq) ==
    CHOOSE k \in 1..Len(AttackLoop(bd.moves, 1)) : AttackLoop(bd.moves, 1)[k] = seq

\* C17: calculate_attack_sequences never places a check above a checkmate
\* nor a capture above a check, for every material gain of a capture, and
\* sequences of equal priority keep the order of move generation.
C17_AttackRanking ==
    probe.pc = "analyzed"
        => LET seqs == probe.analysis.val.attack_sequences
           IN  /\ Len(seqs) = Len(AttackLoop(probe.bd.moves, 1))
               /\ \A i, j \in 1..Len(seqs) :
                      i < j
                        => /\ KindRank(seqs[i].result) >= KindRank(seqs[j].result)
                           /\ sequence_priority(seqs[i]) = sequence_priority(seqs[j])
                                => GenerationIndex(probe.bd, seqs[i])
                                       < GenerationIndex(probe.bd, seqs[j])

\* a ranked list with a checkmate, a check, a queen capture, and two
\* sequences of equal priority
C17_Witness ==
    /\ probe.pc = "analyzed"
    /\ LET seqs == probe.analysis.val.attack_sequences
       IN  /\ \E i \in 1..Len(seqs) : seqs[i].result = "checkmate"
           /\ \E i \in 1..Len(seqs) : seqs[i].result = "check"
           /\ \E i \in 1..Len(seqs) :
                  seqs[i].result = "capture" /\ seqs[i].material_gain = 900
           /\ \E i, j \in 1..Len(seqs) :
                  i < j /\ sequence_priority(seqs[i]) = sequence_priority(seqs[j])

\* C18: calculate_attack_sequences puts each legal move in at most one
\* sequence: checkmate, else check, else capture with positive gain, else
\* none; a move appears at most once in the ranked list, and a capture
\* sequence is only made for a move that gives neither checkmate nor check.
C18_OneSequencePerMove ==
    probe.pc = "analyzed"
        => LET seqs == probe.analysis.val.attack_sequences
           IN  /\ \A i, j \in 1..Len(seqs) :
                      seqs[i].move = seqs[j].move => i = j
               /\ \A i \in 1..Len(seqs) :
                      seqs[i].result = "capture"
                        => \A k \in 1..Len(probe.bd.moves) :
                               probe.bd.moves[k].uci = seqs[i].move
                                 => /\ ~probe.bd.moves[k].mate
                                    /\ ~probe.bd.moves[k].check

TopAttackKind(analysis) ==
    IF analysis.attack_sequences = << >> THEN "none"
    ELSE analysis.attack_sequences[1].result

InDangerOf(analysis) ==
    analysis.king_in_check \/ analysis.immediate_threats > 0

\* C19: the recommended strategy of analyze_position_before_move is decided
\* by (in danger, kind of the top attack sequence, a defense sequence
\* exists): in danger it is attack when the top attack is checkmate, else
\* defend when a defense sequence exists, else counter_attack; out of danger
\* it is checkmate for a top checkmate, attack for a top check, capture for
\* a top capture gaining at least 300, and positional otherwise.
C19_StrategyTable ==
    probe.pc = "analyzed"
        => LET a == probe.analysis.val
               top == TopAttackKind(a)
               s == a.recommended_strategy
           IN  /\ (InDangerOf(a) /\ top = "checkmate") => s = "attack"
               /\ (InDangerOf(a) /\ top # "checkmate"
                                 /\ a.defense_sequences # << >>) => s = "defend"
               /\ (InDangerOf(a) /\ top # "checkmate"
                                 /\ a.defense_sequences = << >>)
                      => s = "counter_attack"
               /\ (~InDangerOf(a) /\ top = "checkmate") => s = "checkmate"
               /\ (~InDangerOf(a) /\ top = "check") => s = "attack"
               /\ (~InDangerOf(a) /\ top = "capture"
                      /\ a.attack_sequences[1].material_gain >= 300)
                      => s = "capture"
               /\ (~InDangerOf(a) /\ top = "capture"
                      /\ a.attack_sequences[1].material_gain < 300)
                      => s = "positional"
               /\ (~InDangerOf(a) /\ top = "none") => s = "positional"

C19_Witness ==
    /\ probe.pc = "analyzed"
    /\ InDangerOf(probe.analysis.val)
    /\ TopAttackKind(probe.analysis.val) = "checkmate"
    /\ probe.analysis.val.defense_sequences # << >>
    /\ probe.analysis.val.recommended_strategy = "attack"

(***************************************************************************)
(* get_move_score on its own: a move record is drawn from the records the  *)
(* store can hold (counters up to MaxProbeTrials, a fastest game of one    *)
(* ply, two plies, max_depth plies or none yet, the accumulated captures   *)
(* and material at their extremes), and a win is added to it while every   *)
(* other field is held.  get_move_score does not read the results list,    *)
(* which is left empty.  The scores are exact rationals; the float         *)
(* operations of the source (a division, a product and sums of             *)
(* non-negative terms) round monotonically.                                *)
(***************************************************************************)
MaxProbeTrials == 3

ProbeMinMoves == {Infinity, 1, 2, max_depth}

ProbeRecords ==
    { [NewRecord("probe") EXCEPT !.wins = w, !.draws = d, !.losses = l,
                                 !.min_moves_to_win = mw,
                                 !.min_moves_to_draw = md,
                                 !.total_captures = c,
                                 !.total_material_gained = g] :
        w \in 0..MaxProbeTrials, d \in 0..MaxProbeTrials,
        l \in 0..MaxProbeTrials,
        mw \in ProbeMinMoves, md \in ProbeMinMoves,
        c \in {0, MaxCaptures}, g \in {0 - MaxSwing, 0, MaxSwing} }

ScoreInit ==
    /\ scope = StoreScope
    /\ save_faults = 0
    /\ disk = NoFile
    /\ memory = load_memory(disk)
    /\ board = StartBoard
    /\ clock = 0
    /\ pc = "start"
    /\ attempts = 0
    /\ max_strength = 0
    /\ priority_moves = << >>
    /\ best_draw = Unbound
    /\ ret = NoReturn
    /\ hist = NoHist
    /\ sim = Idle
    /\ \E md \in ProbeRecords :
           probe = [pc |-> "record", md |-> md, trials_before |-> 0,
                    score_before |-> RatInt(0),
                    score_after |-> get_move_score(md)]

\* one more win, every other field held, and the score of the record before
\* and after it
ScoreAnotherWin ==
    /\ probe.pc \in {"record", "scored"}
    /\ probe.md.wins <= MaxProbeTrials
    /\ LET md == [probe.md EXCEPT !.wins = @ + 1]
       IN  probe' = [pc |-> "scored", md |-> md,
                     trials_before |->
                         probe.md.wins + probe.md.draws + probe.md.losses,
                     score_before |-> get_move_score(probe.md),
                     score_after |-> get_move_score(md)]
    /\ UNCHANGED MainVars
    /\ UNCHANGED sim

ScoreNext == ScoreAnotherWin

ScoreSpec == ScoreInit /\ [][ScoreNext]_vars

\* C20: get_move_score never goes down when a win is added to a record of at
\* least one trial and draws, losses, min_moves_to_win, min_moves_to_draw,
\* total_captures and total_material_gained are held.
C20_ScoreMonotoneInWins ==
    (probe.pc = "scored" /\ probe.trials_before >= 1)
        => RatLeq(probe.score_before, probe.score_after)

C20_Witness ==
    /\ probe.pc = "scored"
    /\ probe.trials_before >= 1
    /\ probe.md.wins >= 2
    /\ probe.md.losses >= 1
    /\ probe.md.min_moves_to_win = 1
    /\ RatLess(probe.score_before, probe.score_after)

\* the record at place i of the bucket of key k, all zeros when the store
\* holds none there
RecordAt(mem, k, i, san) ==
    IF k \in DOMAIN mem /\ i <= Len(mem[k]) THEN mem[k][i].data
    ELSE NewRecord(san)

OneIf(cond) == IF cond THEN 1 ELSE 0

\* C21: one call of record_move_result appends exactly one entry to the
\* results of one move record and adds 1 to exactly one of wins, draws and
\* losses, the one matching the outcome, whether or not the same outcome is
\* already held; every other record, under the same key or another, is left
\* as it was, and no other record appears.
C21_OneRecordingOneEntry ==
    [][RecordStep =>
        \E k \in DOMAIN memory' : \E i \in 1..Len(memory'[k]) :
            LET new    == memory'[k][i].data
                old    == RecordAt(memory, k, i, new.san)
                result == new.results[Len(new.results)].result
            IN  /\ Len(new.results) = Len(old.results) + 1
                /\ SubSeq(new.results, 1, Len(old.results)) = old.results
                /\ new.wins = old.wins + OneIf(result = "WIN")
                /\ new.draws = old.draws + OneIf(result = "DRAW")
                /\ new.losses = old.losses + OneIf(result = "LOSS")
                /\ DOMAIN memory' = DOMAIN memory \cup {k}
                /\ \A k2 \in DOMAIN memory' : \A i2 \in 1..Len(memory'[k2]) :
                       <<k2, i2>> # <<k, i>>
                         => /\ k2 \in DOMAIN memory
                            /\ i2 <= Len(memory[k2])
                            /\ memory'[k2][i2] = memory[k2][i2]
                /\ \A k2 \in DOMAIN memory :
                       Len(memory'[k2]) >= Len(memory[k2])
    ]_vars

\* the same outcome recorded twice for a move, in a store that holds a
\* record under another key
C21_Witness ==
    \E k \in DOMAIN memory : \E i \in 1..Len(memory[k]) :
        LET md == memory[k][i].data
        IN  /\ Len(md.results) = 2
            /\ md.results[1].result = md.results[2].result
            /\ md.results[1].move_count = md.results[2].move_count
            /\ md.wins + md.draws + md.losses = 2
            /\ \E k2 \in DOMAIN memory : k2 # k /\ memory[k2] # << >>

\* the ply counts of the entries of a record that hold a given result
PliesOf(md, result) ==
    { md.results[j].move_count :
          j \in { n \in 1..Len(md.results) : md.results[n].result = result } }

\* the least ply count of a set of ply counts, infinity when there is none
LeastPly(plies) ==
    IF plies = { } THEN Infinity
    ELSE CHOOSE p \in plies : \A q \in plies : p <= q

\* C22: after any sequence of recordings from an empty store, in every
\* record min_moves_to_win is the least ply count of its WIN entries and is
\* infinity exactly when wins = 0, and min_moves_to_draw is the least ply
\* count of its DRAW entries and is infinity exactly when draws = 0.
C22_RunningMinimum ==
    \A md \in Records(memory) :
        /\ md.min_moves_to_win = LeastPly(PliesOf(md, "WIN"))
        /\ md.min_moves_to_draw = LeastPly(PliesOf(md, "DRAW"))
        /\ (md.min_moves_to_win = Infinity) <=> (md.wins = 0)
        /\ (md.min_moves_to_draw = Infinity) <=> (md.draws = 0)

\* a record that won in one ply and later in more plies, and never drew
C22_Witness ==
    \E md \in Records(memory) :
        /\ Len(md.results) = 2
        /\ md.results[1].result = "WIN" /\ md.results[2].result = "WIN"
        /\ md.results[1].move_count < md.results[2].move_count
        /\ md.min_moves_to_win = md.results[1].move_count
        /\ md.min_moves_to_draw = Infinity

\* C23: simulate_tactical_game leaves the learner's state alone: no step of
\* a simulation changes self.board, the in-memory store or memory_file.
C23_SimulationHasNoSideEffect ==
    [][sim' # sim => /\ board' = board
                     /\ memory' = memory
                     /\ disk' = disk]_vars

\* a simulation of several plies that returned, beside a store and a file
\* that hold a record
C23_Witness ==
    /\ sim.pc = "returned"
    /\ sim.move_count >= 2
    /\ memory # << >>
    /\ disk = Some(JsonDump(memory))
    /\ board = StartBoard

\* the ranked list the strategy of a position points to
RankedList(bd) ==
    LET analysis == analyze_position_before_move(bd)
    IN  CASE analysis.recommended_strategy = "defend"
               -> analysis.defense_sequences
          [] analysis.recommended_strategy \in {"attack", "checkmate", "capture"}
               -> analysis.attack_sequences
          [] OTHER -> << >>

\* a list of moves without the later occurrences of a move
RECURSIVE FirstOccurrences(_, _)
FirstOccurrences(seq, i) ==
    IF i > Len(seq) THEN << >>
    ELSE IF \E j \in 1..(i - 1) : seq[j] = seq[i]
    THEN FirstOccurrences(seq, i + 1)
    ELSE <<seq[i]>> \o FirstOccurrences(seq, i + 1)

\* C24: when the loop of find_winning_move starts, the priority candidates
\* are the moves of the first 5 entries, or of all when there are fewer, of
\* the defense sequences under defend and of the attack sequences under
\* attack, checkmate and capture, in rank order, and there are none under
\* counter_attack and positional; the candidates that had no record when
\* the search started are simulated first, in that order (the records a
\* search adds to the position stand in the order of their first
\* simulation).
C24_PriorityCandidates ==
    LET ranked  == RankedList(board)
        count   == IF Len(ranked) < 5 THEN Len(ranked) ELSE 5
        first   == [i \in 1..count |-> ranked[i].move]
        bucket0 == Bucket(hist.memory0, position_key(board))
        bucket  == Bucket(memory, position_key(board))
        order   == SelectSeq(FirstOccurrences(first, 1),
                             LAMBDA m : ~HasMove(bucket0, m))
    IN  /\ (pc = "loop" /\ hist.sims = 0) => priority_moves = first
        /\ pc \in {"loop", "done", "raised"}
             => \A i \in 1..Len(order) :
                    Len(bucket0) + i <= Len(bucket)
                      => bucket[Len(bucket0) + i].uci = order[i]

\* a search, started with no record, on a position whose ranked list has
\* more than five entries, after five simulations of five moves
C24_Witness ==
    /\ pc = "loop"
    /\ FreshSearch
    /\ Len(priority_moves) < 5
    /\ Len(RankedList(board)) > 5
    /\ Len(Bucket(memory, position_key(board))) = 5
    /\ hist.sims = 5

\* a record given up: three trials or more, none won, none drawn
Exhausted(md) == Trials(md) >= 3 /\ md.wins = 0 /\ md.draws = 0

\* C25: find_winning_move never simulates a move whose record for the
\* current position, in the store as loaded or as left by the search so
\* far, has 3 or more trials with wins = 0 and draws = 0.
C25_ExhaustedMoveNotSimulated ==
    [][AttemptStep =>
        LET bucket == Bucket(memory, position_key(board))
            move   == hist'.last.val.move
        IN  HasMove(bucket, move) => ~Exhausted(MoveData(bucket, move))
    ]_vars

\* a search that simulated another move of a position after one of its
\* moves had three losses and nothing else
C25_Witness ==
    /\ hist.sims >= 1
    /\ \E i \in 1..Len(Bucket(memory, position_key(board))) :
           LET item == Bucket(memory, position_key(board))[i]
           IN  /\ Exhausted(item.data)
               /\ Len(item.data.results) = 3
               /\ item.uci # hist.last.val.move
               /\ item.data.results[3].timestamp < clock

IsPrefix(s, t) == Len(s) <= Len(t) /\ SubSeq(t, 1, Len(s)) = s

\* every key and every record of the earlier store is in the later one, with
\* the same notation, the earlier results as a prefix of the later results
\* and no fewer captures
Grows(earlier, later) ==
    /\ DOMAIN earlier \subseteq DOMAIN later
    /\ \A k \in DOMAIN earlier :
           /\ Len(earlier[k]) <= Len(later[k])
           /\ \A i \in 1..Len(earlier[k]) :
                  /\ later[k][i].uci = earlier[k][i].uci
                  /\ later[k][i].data.san = earlier[k][i].data.san
                  /\ IsPrefix(earlier[k][i].data.results,
                              later[k][i].data.results)
                  /\ later[k][i].data.total_captures
                         >= earlier[k][i].data.total_captures

\* a new process starts and loads memory_file
ProcessStart == pc # "start" /\ pc' = "start"

\* C26: the store of a process only grows: no step deletes a position key
\* or a MoveRecord, changes a record's notation, alters or removes an entry
\* of a results list (entries are appended, in the order of their
\* timestamps) or lowers total_captures; a new process that loads a file
\* holding the whole store starts from the same store.
C26_StoreOnlyGrows ==
    [][/\ ~ProcessStart => Grows(memory, memory')
       /\ (ProcessStart /\ disk = Some(JsonDump(memory)))
              => Grows(memory, memory')
       /\ \A md \in Records(memory') :
              \A i, j \in 1..Len(md.results) :
                  i < j => md.results[i].timestamp < md.results[j].timestamp
    ]_vars

\* a position with two records, one of them with two entries and captures
C26_Witness ==
    \E k \in DOMAIN memory :
        /\ Len(memory[k]) >= 2
        /\ \E i \in 1..Len(memory[k]) :
               /\ Len(memory[k][i].data.results) >= 2
               /\ memory[k][i].data.total_captures >= MaxCaptures

\* the mover's own king is in check after a move: never, for a move of
\* board.legal_moves
OwnKingInCheckAfter(bd, m) == FALSE

\* C27: in calculate_defense_sequences a move is flagged removes_check
\* exactly when the mover's king is in check before the move and is not in
\* check after it.
C27_RemovesCheckFlag ==
    (probe.pc = "analyzed" /\ InDangerOf(probe.analysis.val))
        => LET defenses == probe.analysis.val.defense_sequences
           IN  \A i \in 1..Len(defenses) :
                   \A k \in 1..Len(probe.bd.moves) :
                       probe.bd.moves[k].uci = defenses[i].move
                         => (defenses[i].removes_check
                               <=> (probe.bd.in_check
                                      /\ ~OwnKingInCheckAfter(probe.bd,
                                                              probe.bd.moves[k])))

\* find_winning_move has returned a move
ReturnedMove == pc = "done" /\ ret.tag = "Some"

\* the records of the current position whose notation is the returned one
ReturnedRecords ==
    LET bucket == Bucket(memory, position_key(board))
    IN  { bucket[i].data : i \in { n \in 1..Len(bucket) :
                                       bucket[n].data.san = ret.val } }

\* the search returned the move it had just simulated
ReturnedOnWin ==
    ~hist.from_memory /\ hist.last # None /\ hist.last.val.result = "WIN"

\* C28: when find_winning_move returns a move, the move has a record for
\* the current position with wins > 0 or draws > 0: wins > 0 when it is
\* accepted from memory or returned after a WIN, draws > 0 when it is the
\* best-draw candidate returned after the loop.
C28_ReturnedMoveWonOrDrew ==
    ReturnedMove
        => /\ ReturnedRecords # { }
           /\ \A md \in ReturnedRecords :
                  /\ md.wins > 0 \/ md.draws > 0
                  /\ (hist.from_memory \/ ReturnedOnWin) => md.wins > 0
                  /\ ~(hist.from_memory \/ ReturnedOnWin) => md.draws > 0

\* a search that returned its best draw after a later move lost
C28_Witness ==
    /\ ReturnedMove
    /\ ~hist.from_memory
    /\ hist.sims >= 2
    /\ hist.last.val.result = "LOSS"
    /\ \E md \in ReturnedRecords : md.wins = 0 /\ md.draws > 0

\* every outcome recorded for the current position is a LOSS
AllLost ==
    \A i \in 1..Len(Bucket(memory, position_key(board))) :
        LET md == Bucket(memory, position_key(board))[i].data
        IN  md.wins = 0 /\ md.draws = 0

\* C29: from a store with no record for a position of L >= 1 legal moves,
\* when every simulation ends in LOSS, find_winning_move with budget N plays
\* exactly min(N, 3 * L) simulations, no move more than 3 times; when
\* N > 3 * L the loop stops with every move given up; the search returns
\* None.
C29_AllLossSearch ==
    LET L      == Len(board.moves)
        N      == max_strength
        bucket == Bucket(memory, position_key(board))
    IN  (pc \in {"loop", "done", "raised"} /\ FreshSearch /\ L >= 1 /\ AllLost)
          => /\ \A i \in 1..Len(bucket) : Trials(bucket[i].data) <= 3
             /\ pc \in {"done", "raised"}
                  => /\ pc = "done"
                     /\ hist.sims = (IF N < 3 * L THEN N ELSE 3 * L)
                     /\ ret = None
                     /\ N > 3 * L
                          => /\ Len(bucket) = L
                             /\ \A i \in 1..L : ~should_retry_move(bucket[i].data)
                             /\ attempts = 3 * L + 1

\* a budget above 3 * L on a position of two legal moves: six losses, and
\* the search gives up
C29_Witness ==
    /\ pc = "done"
    /\ FreshSearch
    /\ AllLost
    /\ Len(board.moves) = 2
    /\ max_strength > 6
    /\ hist.sims = 6
    /\ ret = None

\* step 2 of find_winning_move returns the best move of the store
AcceptedFromMemory == pc = "ready" /\ pc' = "done"

\* C30: when find_winning_move accepts the best-known move from memory in
\* step 2, it returns that move, plays no simulation, records nothing and
\* leaves the in-memory store and memory_file as they were before the call.
C30_AcceptanceLeavesStores ==
    [][AcceptedFromMemory => /\ ret'.tag = "Some"
                             /\ hist'.sims = 0
                             /\ clock' = clock
                             /\ memory' = memory
                             /\ disk' = disk]_vars

\* a move accepted from a store whose last write to memory_file failed: the
\* file is still the older one
C30_Witness ==
    /\ pc = "done"
    /\ hist.from_memory
    /\ hist.sims = 0
    /\ memory # << >>
    /\ memory = hist.memory0
    /\ disk = hist.disk0
    /\ disk # Some(JsonDump(memory))

\* a list of defense sequences holds exactly one entry for each legal move
OneEntryPerLegalMove(defenses, bd) ==
    /\ Len(defenses) = Len(bd.moves)
    /\ \A k \in 1..Len(bd.moves) :
           Cardinality({ i \in 1..Len(defenses) :
                             defenses[i].move = bd.moves[k].uci }) = 1

\* C31: calculate_defense_sequences returns exactly one entry per legal
\* move, so analyze_position_before_move recommends counter_attack only for
\* a position with no legal move, and whenever the king is in danger and a
\* legal move exists the strategy is defend or attack.
C31_DefenseForEveryMove ==
    probe.pc = "analyzed"
        => LET a == probe.analysis.val
           IN  /\ OneEntryPerLegalMove(calculate_defense_sequences(probe.bd),
                                       probe.bd)
               /\ InDangerOf(a)
                    => OneEntryPerLegalMove(a.defense_sequences, probe.bd)
               /\ a.recommended_strategy = "counter_attack"
                    => probe.bd.moves = << >>
               /\ (InDangerOf(a) /\ probe.bd.moves # << >>)
                    => a.recommended_strategy \in {"defend", "attack"}

\* in check, two legal replies that both give check and reduce no threat:
\* both are listed and the strategy is defend
C31_Witness ==
    /\ probe.pc = "analyzed"
    /\ probe.bd.in_check
    /\ Len(probe.bd.moves) = 2
    /\ \A k \in 1..2 : probe.bd.moves[k].check /\ ~probe.bd.moves[k].mate
    /\ Len(probe.analysis.val.defense_sequences) = 2
    /\ \A i \in 1..2 :
           /\ ~probe.analysis.val.defense_sequences[i].removes_check
           /\ probe.analysis.val.defense_sequences[i].threats_reduced = 0
    /\ probe.analysis.val.recommended_strategy = "defend"

====
